---- MODULE Spec2Model ----
(***************************************************************************)
(* A model of fastapi_nvidia_nim_proxy.py: the credential gate             *)
(* (auth_middleware / authenticate_request), the route handlers            *)
(* (root, health, list_models, chat_completions, completions), the         *)
(* translators and the streaming generator (generate_stream).              *)
(*                                                                         *)
(* Header values and the credential are sequences of one-character         *)
(* strings, so that startswith and split are computed as Python computes   *)
(* them. Backend bodies are sequences of lines.                            *)
(***************************************************************************)
EXTENDS Integers, Sequences, FiniteSets, TLC

VARIABLES
    PROXY_API_KEY,       \* line 20, read-only configuration
    NVIDIA_NIM_API_KEY,  \* line 19, read-only configuration
    pc,                  \* per request: the position of its handling
    req,                 \* per request: method, path, Authorization header
    backend,             \* per request: what the backend holds in store for its call
    work,                \* per request: the handler's locals and effects
    resp,                \* per request: the response the caller observes
    out,                 \* per request: the chunks of a streamed body, in order
    tr                   \* a translator applied on its own: input and results

vars == <<PROXY_API_KEY, NVIDIA_NIM_API_KEY, pc, req, backend, work, resp, out, tr>>

(***************************************************************************)
(* Bounds                                                                  *)
(***************************************************************************)
MaxPieces == 2   \* pieces after the scheme of a generated Authorization value
MaxLines  == 2   \* lines of a backend body
MaxApply  == 2   \* successive applications of a translator to one document

(***************************************************************************)
(* Strings as character sequences                                          *)
(***************************************************************************)
Bearer == <<"B", "e", "a", "r", "e", "r", " ">>

StartsWith(s, p) == Len(s) >= Len(p) /\ SubSeq(s, 1, Len(p)) = p

\* The least index >= from where sep occurs in s, or 0.
Find(s, sep, from) ==
    LET hits == {i \in from..(Len(s) - Len(sep) + 1) : SubSeq(s, i, i + Len(sep) - 1) = sep}
    IN  IF hits = {} THEN 0 ELSE CHOOSE i \in hits : \A j \in hits : i <= j

\* str.split(sep): the parts of s between the non-overlapping occurrences of sep,
\* scanned left to right.
RECURSIVE SplitFrom(_, _, _)
SplitFrom(s, sep, from) ==
    LET i == Find(s, sep, from)
    IN  IF i = 0 THEN <<SubSeq(s, from, Len(s))>>
        ELSE <<SubSeq(s, from, i - 1)>> \o SplitFrom(s, sep, i + Len(sep))

Split(s, sep) == SplitFrom(s, sep, 1)

(***************************************************************************)
(* Inputs                                                                  *)
(***************************************************************************)
Credentials == {<<"k">>, <<"k", "x">>}
NimKeys == {"", "nim-key"}

Pieces == {<<"k">>, <<"x">>, Bearer}
RECURSIVE Tails(_)
Tails(n) == IF n = 0 THEN {<<>>}
            ELSE Tails(n - 1) \cup {t \o p : t \in Tails(n - 1), p \in Pieces}
Schemes == {Bearer, <<"b", "e", "a", "r", "e", "r", " ">>, <<>>}

NoHeader == [present |-> FALSE, value |-> <<>>]
Headers == {NoHeader} \cup
           {[present |-> TRUE, value |-> s \o t] : s \in Schemes, t \in Tails(MaxPieces)}

AllowList == {"/", "/health", "/docs", "/openapi.json"}
Paths == AllowList \cup {"/v1/models", "/v1/chat/completions", "/v1/completions", "/v1/other"}
Methods == {"GET", "POST"}

(***************************************************************************)
(* JSON values: an object is a function from keys to value tokens; arrays  *)
(* and scalars carry no content the program looks at.                      *)
(***************************************************************************)
EmptyDoc == [k \in {} |-> ""]
JObject(d) == [type |-> "object", doc |-> d]
JArray == [type |-> "array", doc |-> EmptyDoc]
JString == [type |-> "string", doc |-> EmptyDoc]
JNumber == [type |-> "number", doc |-> EmptyDoc]
JBoolean == [type |-> "boolean", doc |-> EmptyDoc]
JNull == [type |-> "null", doc |-> EmptyDoc]
NoValue == [type |-> "none", doc |-> EmptyDoc]

\* Request documents: "model" absent or a name; "stream" absent, true, false,
\* 1 or 0.
RequestDocs ==
    UNION {[K -> {"m", "true", "false", "1", "0"}] : K \in SUBSET {"model", "stream"}}
RequestObjects ==
    {d \in RequestDocs : /\ ("model" \in DOMAIN d => d["model"] = "m")
                         /\ ("stream" \in DOMAIN d => d["stream"] # "m")}

\* Inbound bodies: JSON text of some value, text that is not JSON, or bytes
\* that are not UTF-8.
Bodies == {[kind |-> "json", value |-> v] :
                v \in {JObject(d) : d \in RequestObjects} \cup {JArray, JString}}
          \cup {[kind |-> "malformed", value |-> NoValue],
                [kind |-> "undecodable", value |-> NoValue]}

\* Backend bodies, as the lines aiter_lines yields; two of the lines are JSON
\* objects.
JsonX == "{\"id\": \"x\"}"
JsonY == "{\"id\": \"y\", \"n\": \"1\"}"
LineVals == {"", "data: a", "data: [DONE]", JsonX, JsonY}
RECURSIVE Texts(_)
Texts(n) == IF n = 0 THEN {<<>>}
            ELSE Texts(n - 1) \cup {t \o <<l>> : t \in Texts(n - 1), l \in LineVals}

BackendStatuses == {200, 429}
NoScript == [fails |-> FALSE, status |-> 0, lines |-> <<>>]
Scripts == {[fails |-> TRUE, status |-> 0, lines |-> <<>>]} \cup
           {[fails |-> FALSE, status |-> s, lines |-> t] :
                s \in BackendStatuses, t \in Texts(MaxLines)}

\* response.text / bytes.decode(): the lines joined by newlines.
RECURSIVE Text(_)
Text(lines) == IF lines = <<>> THEN ""
               ELSE IF Len(lines) = 1 THEN lines[1]
               ELSE lines[1] \o "\n" \o Text(Tail(lines))

\* json.loads of a backend body: whitespace (blank lines) around one JSON value.
NonEmpty(lines) == SelectSeq(lines, LAMBDA l : l # "")
LoadsText(lines) ==
    LET ne == NonEmpty(lines)
    IN  IF Len(ne) = 1 /\ ne[1] = JsonX
            THEN [raised |-> "", value |-> JObject([id |-> "x"])]
        ELSE IF Len(ne) = 1 /\ ne[1] = JsonY
            THEN [raised |-> "", value |-> JObject([id |-> "y", n |-> "1"])]
        ELSE [raised |-> "JSONDecodeError", value |-> NoValue]

\* request.json(): json.loads of the inbound body bytes.
LoadsBody(b) ==
    CASE b.kind = "json"        -> [raised |-> "", value |-> b.value]
      [] b.kind = "malformed"   -> [raised |-> "JSONDecodeError", value |-> NoValue]
      [] b.kind = "undecodable" -> [raised |-> "UnicodeDecodeError", value |-> NoValue]

(***************************************************************************)
(* OpenAIToNIMTranslator                                                   *)
(***************************************************************************)
\* x.copy(): dict and list have it; str, int, bool and None do not.
Copy(v) ==
    IF v.type \in {"object", "array"}
    THEN [raised |-> "", value |-> [type |-> v.type, doc |-> [k \in DOMAIN v.doc |-> v.doc[k]]]]
    ELSE [raised |-> "AttributeError", value |-> NoValue]

translate_request(openai_request) == Copy(openai_request)

\* Mutant: the response translator loses every key but "id".
translate_response_lossy(nim_response) ==
    IF nim_response.type \in {"object", "array"}
    THEN [raised |-> "",
          value |-> [type |-> nim_response.type,
                     doc |-> [k \in DOMAIN nim_response.doc \cap {"id"} |->
                                 nim_response.doc[k]]]]
    ELSE [raised |-> "AttributeError", value |-> NoValue]

translate_response(nim_response) == Copy(nim_response)

\* request_data.get("stream", False), and its truth value in `if is_stream`.
GetStream(v) ==
    IF v.type # "object" THEN [raised |-> "AttributeError", value |-> "false"]
    ELSE IF "stream" \in DOMAIN v.doc THEN [raised |-> "", value |-> v.doc["stream"]]
    ELSE [raised |-> "", value |-> "false"]
\* Mutant: only the literal true selects the stream (`if is_stream is True`).
Truthy_only_true(tok) == tok = "true"

Truthy(tok) == tok \notin {"false", "null", "0", "\"\""}

(***************************************************************************)
(* Credential gate                                                         *)
(***************************************************************************)
authenticate_request(auth_header) ==
    IF ~auth_header.present \/ auth_header.value = <<>>
          \/ ~StartsWith(auth_header.value, Bearer)
    THEN FALSE
    ELSE Split(auth_header.value, Bearer)[2] = PROXY_API_KEY

\* Mutant: the health check is missing from the allow-list.
InAllowList_no_health(path) == path \in AllowList \ {"/health"}

InAllowList(path) == path \in AllowList

\* TRUE when the middleware hands the request to call_next.
auth_middleware_passes(path, auth_header) ==
    IF InAllowList(path) THEN TRUE
    ELSE authenticate_request(auth_header)

AuthErrorBody ==
    [error |-> [message |-> "Invalid API key", type |-> "invalid_request_error"]]

(***************************************************************************)
(* State                                                                   *)
(***************************************************************************)
NoRequest == [method |-> "", path |-> "", auth |-> NoHeader]
NoSent == [method |-> "", url |-> "", auth |-> "", json |-> NoValue, timeout |-> 0]
NoResponse == [status |-> 0, media |-> "", body |-> EmptyDoc]

\* client: the handler's httpx.AsyncClient ("none", "open", "closed");
\* body_read: request.json() was awaited, body_kind: on which kind of body;
\* translated: translator runs;
\* nim_request: the translated document; calls: backend requests issued; sent: the last backend request;
\* idx: backend lines consumed by the generator;
\* stream: "" (no stream), "open", "closed" (generator returned) or "aborted"
\* (an exception left the generator); raised: that exception.
NoWork == [client |-> "none", body_read |-> FALSE, body_kind |-> "", translated |-> 0,
           nim_request |-> NoValue, calls |-> 0, sent |-> NoSent, idx |-> 0,
           stream |-> "", raised |-> ""]

\* fn: the translator ("request", "response", "" for none); x: its input;
\* ys: the results of applying it to x, then to its own result, ...
NoTranslation == [fn |-> "", x |-> NoValue, ys |-> <<>>]

InitWith(R) ==
    /\ PROXY_API_KEY \in Credentials
    /\ NVIDIA_NIM_API_KEY \in NimKeys
    /\ pc = [r \in R |-> "idle"]
    /\ req = [r \in R |-> NoRequest]
    /\ backend = [r \in R |-> NoScript]
    /\ work = [r \in R |-> NoWork]
    /\ resp = [r \in R |-> NoResponse]
    /\ out = [r \in R |-> <<>>]
    /\ tr = NoTranslation

Init == InitWith({1})

Config == <<PROXY_API_KEY, NVIDIA_NIM_API_KEY>>

\* A JSON response with a status (JSONResponse, a returned dict, or FastAPI's
\* rendering of an HTTPException as {"detail": ...}).
Json(status, body) == [status |-> status, media |-> "application/json", body |-> body]
HTTPException(status, detail) == Json(status, [detail |-> detail])

\* str(e) of an HTTPException: "<status_code>: <detail>".
StrHTTPException(status, detail) == ToString(status) \o ": " \o detail

\* str(e) of the other exceptions the handlers catch.
StrException(name) == name

Finish(r, response) ==
    /\ resp' = [resp EXCEPT ![r] = response]
    /\ pc' = [pc EXCEPT ![r] = "done"]

(***************************************************************************)
(* Ingress and the middleware                                              *)
(***************************************************************************)
\* A caller's request arrives.
ReceiveFrom(r, targets, headers) ==
    /\ pc[r] = "idle"
    /\ \E t \in targets, h \in headers :
          req' = [req EXCEPT ![r] = [method |-> t[1], path |-> t[2], auth |-> h]]
    /\ pc' = [pc EXCEPT ![r] = "middleware"]
    /\ UNCHANGED <<Config, tr, backend, work, resp, out>>

Receive(r) == ReceiveFrom(r, Methods \X Paths, Headers)

\* Mutant: the middleware reads the body before it checks the credential.
auth_middleware_reads_body(r) ==
    /\ pc[r] = "middleware"
    /\ work' = [work EXCEPT ![r].body_read = TRUE]
    /\ IF auth_middleware_passes(req[r].path, req[r].auth)
       THEN /\ pc' = [pc EXCEPT ![r] = "route"]
            /\ UNCHANGED resp
       ELSE Finish(r, Json(401, AuthErrorBody))
    /\ UNCHANGED <<Config, tr, req, backend, out>>

auth_middleware(r) ==
    /\ pc[r] = "middleware"
    /\ IF auth_middleware_passes(req[r].path, req[r].auth)
       THEN /\ pc' = [pc EXCEPT ![r] = "route"]
            /\ UNCHANGED resp
       ELSE Finish(r, Json(401, AuthErrorBody))
    /\ UNCHANGED <<Config, tr, req, backend, work, out>>

(***************************************************************************)
(* Routes without a backend call                                           *)
(***************************************************************************)
Routes == {<<"GET", "/">>, <<"GET", "/health">>, <<"GET", "/docs">>,
           <<"GET", "/openapi.json">>, <<"GET", "/v1/models">>,
           <<"POST", "/v1/chat/completions">>, <<"POST", "/v1/completions">>}

Routed(r, m, p) == pc[r] = "route" /\ req[r].method = m /\ req[r].path = p

root(r) ==
    /\ Routed(r, "GET", "/")
    /\ Finish(r, Json(200, [message |-> "NVIDIA NIM OpenAI Proxy Server",
                            status |-> "running"]))
    /\ UNCHANGED <<Config, tr, req, backend, work, out>>

health(r) ==
    /\ Routed(r, "GET", "/health")
    /\ Finish(r, Json(200, [status |-> "healthy"]))
    /\ UNCHANGED <<Config, tr, req, backend, work, out>>

\* FastAPI's own documentation routes.
docs(r) ==
    /\ pc[r] = "route" /\ req[r].method = "GET"
    /\ req[r].path \in {"/docs", "/openapi.json"}
    /\ Finish(r, [status |-> 200, media |-> "framework", body |-> EmptyDoc])
    /\ UNCHANGED <<Config, tr, req, backend, work, out>>

\* No route matches: 404 for an unknown path, 405 for a known path with
\* another method.
no_route(r) ==
    /\ pc[r] = "route"
    /\ <<req[r].method, req[r].path>> \notin Routes
    /\ IF \E rt \in Routes : rt[2] = req[r].path
       THEN Finish(r, HTTPException(405, "Method Not Allowed"))
       ELSE Finish(r, HTTPException(404, "Not Found"))
    /\ UNCHANGED <<Config, tr, req, backend, work, out>>

(***************************************************************************)
(* list_models                                                             *)
(***************************************************************************)
\* The Authorization header sent to the backend ("" when no key is configured).
BackendAuth == IF NVIDIA_NIM_API_KEY # "" THEN "Bearer " \o NVIDIA_NIM_API_KEY ELSE ""

\* The handler up to `await client.get(...)`.
list_models_with(r, scripts) ==
    /\ Routed(r, "GET", "/v1/models")
    /\ \E s \in scripts : backend' = [backend EXCEPT ![r] = s]
    /\ work' = [work EXCEPT ![r].client = "open",
                            ![r].calls = @ + 1,
                            ![r].sent = [method |-> "GET", url |-> "/v1/models",
                                         auth |-> BackendAuth, json |-> NoValue,
                                         timeout |-> 30]]
    /\ pc' = [pc EXCEPT ![r] = "models_wait"]
    /\ UNCHANGED <<Config, tr, req, resp, out>>

list_models(r) == list_models_with(r, Scripts)

\* What the try block of list_models raises or returns once the call ends.
ListModelsTry(b) ==
    IF b.fails THEN [raised |-> "ConnectError", response |-> NoResponse]
    ELSE IF b.status = 200
    THEN LET j == LoadsText(b.lines)
         IN  IF j.raised # "" THEN [raised |-> j.raised, response |-> NoResponse]
             ELSE [raised |-> "", response |-> Json(200, j.value.doc)]
    ELSE [raised |-> "HTTPException",
          response |-> HTTPException(b.status, Text(b.lines))]

\* `except Exception` of list_models: every exception of the try block,
\* the HTTPException it raised itself included.
ListModelsOutcome(b) ==
    LET t == ListModelsTry(b)
    IN  IF t.raised # "" THEN HTTPException(500, "Failed to fetch models")
        ELSE t.response

list_models_response(r) ==
    /\ pc[r] = "models_wait"
    /\ work' = [work EXCEPT ![r].client = "closed"]
    /\ Finish(r, ListModelsOutcome(backend[r]))
    /\ UNCHANGED <<Config, tr, req, backend, out>>

(***************************************************************************)
(* chat_completions and completions                                        *)
(***************************************************************************)
\* The handler from `await request.json()` to the first of: an exception,
\* `return StreamingResponse(...)`, `await client.post(...)`.
\* step: "raise" (with the exception), "stream" or "post".
HandlerBegin(b) ==
    LET parsed == LoadsBody(b)
        nim == translate_request(parsed.value)
        is_stream == GetStream(parsed.value)
    IN  IF parsed.raised # "" THEN [step |-> "raise", raised |-> parsed.raised,
                                    translated |-> 0, nim_request |-> NoValue]
        ELSE IF nim.raised # "" THEN [step |-> "raise", raised |-> nim.raised,
                                      translated |-> 1, nim_request |-> NoValue]
        ELSE IF is_stream.raised # "" THEN [step |-> "raise", raised |-> is_stream.raised,
                                            translated |-> 1, nim_request |-> nim.value]
        ELSE IF Truthy(is_stream.value) THEN [step |-> "stream", raised |-> "",
                                              translated |-> 1, nim_request |-> nim.value]
        ELSE [step |-> "post", raised |-> "", translated |-> 1, nim_request |-> nim.value]

\* Mutant: the generic clause answers with a fixed message, not str(e).
HandlerExcept_fixed_message(raised, detail) ==
    IF raised = "JSONDecodeError"
    THEN HTTPException(400, "Invalid JSON in request body")
    ELSE HTTPException(500, "Internal Server Error")

\* The except clauses of the two handlers.
HandlerExcept(raised, detail) ==
    IF raised = "JSONDecodeError"
    THEN HTTPException(400, "Invalid JSON in request body")
    ELSE HTTPException(500, detail)

\* The POST both branches send to the backend.
BackendPost(url, nim_request) ==
    [method |-> "POST", url |-> url, auth |-> BackendAuth, json |-> nim_request,
     timeout |-> 60]

GenerationWith(r, url, bodies, scripts) ==
    /\ Routed(r, "POST", url)
    /\ \E b \in bodies :
          LET h == HandlerBegin(b)
          IN  CASE h.step = "raise" ->
                    /\ work' = [work EXCEPT ![r].body_read = TRUE,
                                            ![r].body_kind = b.kind,
                                            ![r].translated = h.translated]
                    /\ Finish(r, HandlerExcept(h.raised, StrException(h.raised)))
                    /\ UNCHANGED <<backend, out>>
                [] h.step = "post" ->
                    /\ \E s \in scripts : backend' = [backend EXCEPT ![r] = s]
                    /\ work' = [work EXCEPT ![r].body_read = TRUE,
                                            ![r].body_kind = b.kind,
                                            ![r].translated = h.translated,
                                            ![r].nim_request = h.nim_request,
                                            ![r].client = "open",
                                            ![r].calls = @ + 1,
                                            ![r].sent = BackendPost(url, h.nim_request)]
                    /\ pc' = [pc EXCEPT ![r] = "post_wait"]
                    /\ UNCHANGED <<resp, out>>
                [] h.step = "stream" ->
                    \* return StreamingResponse(generate_stream(), ...): the
                    \* generator has not run yet, `async with` closes the client,
                    \* and the response starts with status 200.
                    /\ \E s \in scripts : backend' = [backend EXCEPT ![r] = s]
                    /\ work' = [work EXCEPT ![r].body_read = TRUE,
                                            ![r].body_kind = b.kind,
                                            ![r].translated = h.translated,
                                            ![r].nim_request = h.nim_request,
                                            ![r].client = "closed",
                                            ![r].stream = "open"]
                    /\ resp' = [resp EXCEPT ![r] =
                                  [status |-> 200, media |-> "text/plain",
                                   body |-> EmptyDoc]]
                    /\ pc' = [pc EXCEPT ![r] = "stream_open"]
                    /\ UNCHANGED out
    /\ UNCHANGED <<Config, tr, req>>

Generation(r, url) == GenerationWith(r, url, Bodies, Scripts)

chat_completions(r) == Generation(r, "/v1/chat/completions")

completions(r) == Generation(r, "/v1/completions")

\* The non-streaming branch once `await client.post(...)` ends.
PostTry(b) ==
    IF b.fails THEN [raised |-> "ConnectError", detail |-> StrException("ConnectError"),
                     response |-> NoResponse]
    ELSE IF b.status = 200
    THEN LET j == LoadsText(b.lines)
             o == translate_response(j.value)
         IN  IF j.raised # ""
             THEN [raised |-> j.raised, detail |-> StrException(j.raised),
                   response |-> NoResponse]
             ELSE IF o.raised # ""
             THEN [raised |-> o.raised, detail |-> StrException(o.raised),
                   response |-> NoResponse]
             ELSE [raised |-> "", detail |-> "", response |-> Json(200, o.value.doc)]
    ELSE [raised |-> "HTTPException",
          detail |-> StrHTTPException(b.status, Text(b.lines)),
          response |-> HTTPException(b.status, Text(b.lines))]

PostOutcome(b) ==
    LET t == PostTry(b)
    IN  IF t.raised # "" THEN HandlerExcept(t.raised, t.detail)
        ELSE t.response

\* Mutant: a failed call is issued once more before the failure is reported.
post_response_retrying(r) ==
    /\ pc[r] = "post_wait"
    /\ IF backend[r].fails /\ work[r].calls < 2
       THEN /\ work' = [work EXCEPT ![r].calls = @ + 1]
            /\ UNCHANGED <<pc, resp>>
       ELSE /\ work' = [work EXCEPT ![r].client = "closed"]
            /\ Finish(r, PostOutcome(backend[r]))
    /\ UNCHANGED <<Config, tr, req, backend, out>>

post_response(r) ==
    /\ pc[r] = "post_wait"
    /\ work' = [work EXCEPT ![r].client = "closed",
                            ![r].translated = IF ~backend[r].fails /\ backend[r].status = 200
                                                 /\ LoadsText(backend[r].lines).raised = ""
                                              THEN @ + 1 ELSE @]
    /\ Finish(r, PostOutcome(backend[r]))
    /\ UNCHANGED <<Config, tr, req, backend, out>>

(***************************************************************************)
(* generate_stream: runs after the handler has returned, while the         *)
(* StreamingResponse body is sent.                                         *)
(***************************************************************************)
\* A chunk the generator yields: a backend line with one newline, or the
\* error event `data: {"error": {"message": ..., "type": "api_error"}}` with two.
LineChunk(line) == [event |-> "line", data |-> line, newlines |-> 1]
ErrorChunk(message) == [event |-> "api_error", data |-> message, newlines |-> 2]

\* An exception leaves the generator: the body ends there, with nothing more
\* sent to the caller.
Abort(r, exception) ==
    /\ work' = [work EXCEPT ![r].stream = "aborted", ![r].raised = exception]
    /\ pc' = [pc EXCEPT ![r] = "done"]

\* What using the handler's client yields once `async with` has closed it:
\* httpx refuses the request with RuntimeError, or (a build that does not
\* check) sends it.
ClosedClientOutcomes == {"RuntimeError", "sent"}
ClientOutcomes(client) == IF client = "closed" THEN ClosedClientOutcomes ELSE {"sent"}

\* `async with client.stream("POST", ...)`: the request goes out.
generate_stream_open(r) ==
    /\ pc[r] = "stream_open"
    /\ \E o \in ClientOutcomes(work[r].client) :
          IF o = "sent"
          THEN /\ work' = [work EXCEPT ![r].calls = @ + 1,
                                       ![r].sent = BackendPost(req[r].path,
                                                               work[r].nim_request)]
               /\ pc' = [pc EXCEPT ![r] = "stream_wait"]
          ELSE Abort(r, o)
    /\ UNCHANGED <<Config, tr, req, backend, resp, out>>

\* Mutant: the generator passes the backend's status on to the response.
generate_stream_status_relayed(r) ==
    /\ pc[r] = "stream_wait"
    /\ IF backend[r].fails
       THEN Abort(r, "ConnectError") /\ UNCHANGED <<out, resp>>
       ELSE IF backend[r].status # 200
       THEN /\ out' = [out EXCEPT ![r] = Append(@, ErrorChunk(Text(backend[r].lines)))]
            /\ work' = [work EXCEPT ![r].stream = "closed"]
            /\ resp' = [resp EXCEPT ![r].status = backend[r].status]
            /\ pc' = [pc EXCEPT ![r] = "done"]
       ELSE /\ pc' = [pc EXCEPT ![r] = "stream_lines"]
            /\ UNCHANGED <<work, out, resp>>
    /\ UNCHANGED <<Config, tr, req, backend>>

\* The backend's status line arrives (or the call fails).
generate_stream_status(r) ==
    /\ pc[r] = "stream_wait"
    /\ IF backend[r].fails
       THEN Abort(r, "ConnectError") /\ UNCHANGED out
       ELSE IF backend[r].status # 200
       THEN /\ out' = [out EXCEPT ![r] = Append(@, ErrorChunk(Text(backend[r].lines)))]
            /\ work' = [work EXCEPT ![r].stream = "closed"]
            /\ pc' = [pc EXCEPT ![r] = "done"]
       ELSE /\ pc' = [pc EXCEPT ![r] = "stream_lines"]
            /\ UNCHANGED <<work, out>>
    /\ UNCHANGED <<Config, tr, req, backend, resp>>

\* Mutant: the chunks of all streams go through one shared buffer.
generate_stream_line_shared(r) ==
    /\ pc[r] = "stream_lines"
    /\ work[r].idx < Len(backend[r].lines)
    /\ LET chunk == backend[r].lines[work[r].idx + 1]
       IN  out' = [q \in DOMAIN out |->
                     IF chunk # "" THEN Append(out[q], LineChunk(chunk)) ELSE out[q]]
    /\ work' = [work EXCEPT ![r].idx = @ + 1]
    /\ UNCHANGED <<Config, tr, pc, req, backend, resp>>

\* One turn of `async for chunk in response.aiter_lines()`.
generate_stream_line(r) ==
    /\ pc[r] = "stream_lines"
    /\ work[r].idx < Len(backend[r].lines)
    /\ LET chunk == backend[r].lines[work[r].idx + 1]
       IN  out' = [out EXCEPT ![r] = IF chunk # "" THEN Append(@, LineChunk(chunk)) ELSE @]
    /\ work' = [work EXCEPT ![r].idx = @ + 1]
    /\ UNCHANGED <<Config, tr, pc, req, backend, resp>>

\* The backend closed its connection: the loop and the generator end.
generate_stream_end(r) ==
    /\ pc[r] = "stream_lines"
    /\ work[r].idx = Len(backend[r].lines)
    /\ work' = [work EXCEPT ![r].stream = "closed"]
    /\ pc' = [pc EXCEPT ![r] = "done"]
    /\ UNCHANGED <<Config, tr, req, backend, resp, out>>

\* The backend connection breaks or times out while the body is read.
generate_stream_failure(r) ==
    /\ pc[r] = "stream_lines"
    /\ work[r].idx < Len(backend[r].lines)
    /\ Abort(r, "ReadError")
    /\ UNCHANGED <<Config, tr, req, backend, resp, out>>

(***************************************************************************)
(* Specification                                                           *)
(***************************************************************************)
Next ==
    \/ \E r \in DOMAIN pc : Receive(r)
    \/ \E r \in DOMAIN pc : auth_middleware(r)
    \/ \E r \in DOMAIN pc : root(r)
    \/ \E r \in DOMAIN pc : health(r)
    \/ \E r \in DOMAIN pc : docs(r)
    \/ \E r \in DOMAIN pc : no_route(r)
    \/ \E r \in DOMAIN pc : list_models(r)
    \/ \E r \in DOMAIN pc : list_models_response(r)
    \/ \E r \in DOMAIN pc : chat_completions(r)
    \/ \E r \in DOMAIN pc : completions(r)
    \/ \E r \in DOMAIN pc : post_response(r)
    \/ \E r \in DOMAIN pc : generate_stream_open(r)
    \/ \E r \in DOMAIN pc : generate_stream_status(r)
    \/ \E r \in DOMAIN pc : generate_stream_line(r)
    \/ \E r \in DOMAIN pc : generate_stream_end(r)
    \/ \E r \in DOMAIN pc : generate_stream_failure(r)

Spec == Init /\ [][Next]_vars

TypeOK ==
    /\ PROXY_API_KEY \in Credentials
    /\ NVIDIA_NIM_API_KEY \in NimKeys
    /\ \A r \in DOMAIN pc :
          /\ pc[r] \in {"idle", "middleware", "route", "models_wait", "post_wait",
                        "stream_open", "stream_wait", "stream_lines", "done"}
          /\ work[r].calls \in 0..1
          /\ work[r].idx \in 0..Len(backend[r].lines)

(***************************************************************************)
(* Two requests in flight at once, their steps interleaved in any order,   *)
(* over a small choice of requests, bodies and backend answers.            *)
(***************************************************************************)
ConcTargets == {<<"GET", "/health">>, <<"GET", "/v1/models">>,
                <<"POST", "/v1/chat/completions">>}
ConcHeaders == {NoHeader, [present |-> TRUE, value |-> Bearer \o <<"k">>]}
ConcBodies == {[kind |-> "json", value |-> JObject(EmptyDoc)],
               [kind |-> "json", value |-> JObject([stream |-> "true"])],
               [kind |-> "malformed", value |-> NoValue]}
ConcScripts == {[fails |-> TRUE, status |-> 0, lines |-> <<>>],
                [fails |-> FALSE, status |-> 200, lines |-> <<JsonX>>],
                [fails |-> FALSE, status |-> 200, lines |-> <<"data: a", "data: [DONE]">>],
                [fails |-> FALSE, status |-> 429, lines |-> <<"data: a">>]}

InitConc == InitWith({1, 2})

ConcReceive(r) == ReceiveFrom(r, ConcTargets, ConcHeaders)
ConcListModels(r) == list_models_with(r, ConcScripts)
ConcChatCompletions(r) ==
    GenerationWith(r, "/v1/chat/completions", ConcBodies, ConcScripts)

NextConc ==
    \/ \E r \in DOMAIN pc : ConcReceive(r)
    \/ \E r \in DOMAIN pc : auth_middleware(r)
    \/ \E r \in DOMAIN pc : health(r)
    \/ \E r \in DOMAIN pc : ConcListModels(r)
    \/ \E r \in DOMAIN pc : list_models_response(r)
    \/ \E r \in DOMAIN pc : ConcChatCompletions(r)
    \/ \E r \in DOMAIN pc : post_response(r)
    \/ \E r \in DOMAIN pc : generate_stream_open(r)
    \/ \E r \in DOMAIN pc : generate_stream_status(r)
    \/ \E r \in DOMAIN pc : generate_stream_line(r)
    \/ \E r \in DOMAIN pc : generate_stream_end(r)
    \/ \E r \in DOMAIN pc : generate_stream_failure(r)

SpecConc == InitConc /\ [][NextConc]_vars

(***************************************************************************)
(* The translators on their own: a document is picked and a translator is  *)
(* applied to it, then to its own result.                                  *)
(***************************************************************************)
\* JSON documents of every type: objects over three keys, an array, a
\* string, a number, a boolean, null.
TranslateKeys == {"model", "stream", "id"}
TranslateDocs ==
    {JObject(d) : d \in UNION {[K -> {"m", "true"}] : K \in SUBSET TranslateKeys}}
    \cup {JArray, JString, JNumber, JBoolean, JNull}

InitTranslate == InitWith({})

TranslatePick ==
    /\ tr.fn = ""
    /\ \E fn \in {"request", "response"}, x \in TranslateDocs :
          tr' = [fn |-> fn, x |-> x, ys |-> <<>>]
    /\ UNCHANGED <<Config, pc, req, backend, work, resp, out>>

\* The argument of the next application, when there is one: x, then the last
\* result, as long as no application raised.
CanApply(fn) ==
    /\ tr.fn = fn
    /\ Len(tr.ys) < MaxApply
    /\ (tr.ys # <<>> => tr.ys[Len(tr.ys)].raised = "")
NextArgument == IF tr.ys = <<>> THEN tr.x ELSE tr.ys[Len(tr.ys)].value

translate_request_call ==
    /\ CanApply("request")
    /\ tr' = [tr EXCEPT !.ys = Append(@, translate_request(NextArgument))]
    /\ UNCHANGED <<Config, pc, req, backend, work, resp, out>>

translate_response_call ==
    /\ CanApply("response")
    /\ tr' = [tr EXCEPT !.ys = Append(@, translate_response(NextArgument))]
    /\ UNCHANGED <<Config, pc, req, backend, work, resp, out>>

NextTranslate ==
    \/ TranslatePick
    \/ translate_request_call
    \/ translate_response_call

SpecTranslate == InitTranslate /\ [][NextTranslate]_vars

(***************************************************************************)
(* Properties                                                              *)
(***************************************************************************)
Reqs == DOMAIN pc
PastGate(r) == pc[r] \notin {"idle", "middleware"}
GenerationPaths == {"/v1/chat/completions", "/v1/completions"}
Rejected(r) == pc[r] = "done" /\ resp[r] = Json(401, AuthErrorBody)
\* The request took the buffered branch of a generation handler and the call
\* was issued.
Buffered(r) == req[r].path \in GenerationPaths /\ work[r].stream = "" /\ work[r].calls = 1
Streamed(r) == work[r].stream # ""
\* The chunks a verbatim relay of the lines yields.
Relayed(lines) == [i \in 1..Len(NonEmpty(lines)) |-> LineChunk(NonEmpty(lines)[i])]

\* C1: on a path outside the allow-list, every Authorization value other than
\* exactly "Bearer " followed by the credential (absent included) is answered
\* 401 with the fixed body, so only the exact header gets past the gate.
C1_OnlyExactBearerPasses ==
    \A r \in Reqs :
        (/\ PastGate(r)
         /\ req[r].path \notin AllowList
         /\ ~(req[r].auth.present /\ req[r].auth.value = Bearer \o PROXY_API_KEY))
        => Rejected(r)

\* C2: a request to /, /health, /docs or /openapi.json is never answered 401,
\* whatever its Authorization header (none included): it reaches its route.
C2_AllowListNever401 ==
    \A r \in Reqs :
        req[r].path \in AllowList =>
            /\ resp[r].status # 401
            /\ (pc[r] = "done" => resp[r].status \in {200, 405})

C2_Witness ==
    \E r \in Reqs :
        /\ pc[r] = "done" /\ req[r].path = "/health" /\ req[r].method = "GET"
        /\ ~req[r].auth.present
        /\ resp[r] = Json(200, [status |-> "healthy"])

\* C3: a buffered call (GET /v1/models, or a generation POST without stream)
\* whose backend answers a status other than 200 ends with that status and the
\* backend's body text as detail.
C3_BackendStatusPropagated ==
    \A r \in Reqs :
        (/\ pc[r] = "done"
         /\ work[r].calls = 1 /\ work[r].stream = ""
         /\ ~backend[r].fails /\ backend[r].status # 200)
        => resp[r] = HTTPException(backend[r].status, Text(backend[r].lines))

\* C4: a generation request without stream whose backend answers 200 with a
\* JSON object is answered 200 with that object, key for key.
C4_BufferedBodyUnchanged ==
    \A r \in Reqs :
        (/\ pc[r] = "done" /\ Buffered(r)
         /\ ~backend[r].fails /\ backend[r].status = 200)
        => /\ (NonEmpty(backend[r].lines) = <<JsonX>>
                  => resp[r] = Json(200, [id |-> "x"]))
           /\ (NonEmpty(backend[r].lines) = <<JsonY>>
                  => resp[r] = Json(200, [id |-> "y", n |-> "1"]))

C4_Witness ==
    \E r \in Reqs :
        /\ pc[r] = "done" /\ Buffered(r)
        /\ backend[r].status = 200 /\ backend[r].lines = <<JsonY>>
        /\ resp[r] = Json(200, [id |-> "y", n |-> "1"])

\* C5: a streaming request whose backend answers 200 and emits its lines ends
\* with the caller holding exactly the non-empty lines, in order, one chunk
\* each with one newline, and nothing else.
C5_StreamRelaysLines ==
    \A r \in Reqs :
        (/\ pc[r] = "done" /\ Streamed(r)
         /\ ~backend[r].fails /\ backend[r].status = 200
         /\ work[r].raised # "ReadError")
        => out[r] = Relayed(backend[r].lines)

\* C6: a generation request whose body is not valid JSON is answered 400 and
\* causes no backend call.
C6_InvalidJson400NoCall ==
    \A r \in Reqs :
        (pc[r] = "done" /\ work[r].body_kind \in {"malformed", "undecodable"})
        => /\ resp[r].status = 400
           /\ work[r].calls = 0

\* C7: a request the gate rejects leaves no trace but its 401: no body read,
\* no translator run, no client, no backend call, no chunk.
C7_RejectionHasNoEffect ==
    \A r \in Reqs :
        Rejected(r) => /\ work[r] = NoWork
                       /\ backend[r] = NoScript
                       /\ out[r] = <<>>

C7_Witness ==
    \E r \in Reqs :
        /\ Rejected(r)
        /\ req[r].method = "POST" /\ req[r].path = "/v1/chat/completions"
        /\ req[r].auth.present

\* C8 as stated: on the streaming path a backend whose first status is not 200
\* shows in the caller's status line.
C8_StatusFollowsBackend ==
    \A r \in Reqs :
        (/\ pc[r] = "done" /\ Streamed(r) /\ work[r].calls = 1
         /\ ~backend[r].fails /\ backend[r].status # 200)
        => resp[r].status = backend[r].status

\* C8 amended: on the streaming path the caller's status is 200, fixed when the
\* handler returns and before the backend is contacted or a chunk is yielded;
\* no later step changes it, a backend status other than 200 included.
C8_StreamStatusFixed200 ==
    \A r \in Reqs :
        /\ Streamed(r) => resp[r].status = 200 /\ resp[r].media = "text/plain"
        /\ out[r] # <<>> => Streamed(r)
        /\ pc[r] = "stream_open" => Streamed(r) /\ work[r].calls = 0 /\ out[r] = <<>>

C8_Witness ==
    \E r \in Reqs :
        /\ pc[r] = "done" /\ Streamed(r) /\ work[r].calls = 1
        /\ backend[r].status = 429
        /\ Len(out[r]) = 1
        /\ resp[r].status = 200

\* C9: a streaming request whose backend answers a status other than 200 ends
\* with exactly one chunk, the error event carrying the backend's body, and a
\* closed stream.
C9_StreamErrorEvent ==
    \A r \in Reqs :
        (/\ pc[r] = "done" /\ Streamed(r)
         /\ ~backend[r].fails /\ backend[r].status # 200)
        => /\ out[r] = <<ErrorChunk(Text(backend[r].lines))>>
           /\ work[r].stream = "closed"

\* C10: a stream that a failure ends carries an error event as its last chunk.
C10_FailureEndsWithErrorEvent ==
    \A r \in Reqs :
        (pc[r] = "done" /\ work[r].stream = "aborted")
        => /\ out[r] # <<>>
           /\ out[r][Len(out[r])].event = "api_error"

\* C11: a buffered call whose backend call fails in transport is answered 500:
\* with the failure's description as detail on the generation routes, with
\* "Failed to fetch models" on /v1/models.
C11_TransportFailure500 ==
    \A r \in Reqs :
        (/\ pc[r] = "done" /\ work[r].calls = 1 /\ work[r].stream = ""
         /\ backend[r].fails)
        => /\ (req[r].path \in GenerationPaths
                  => resp[r] = Json(500, [detail |-> "ConnectError"]))
           /\ (req[r].path = "/v1/models"
                  => resp[r] = Json(500, [detail |-> "Failed to fetch models"]))

C11_Witness ==
    \E r \in Reqs :
        /\ pc[r] = "done" /\ Buffered(r) /\ backend[r].fails
        /\ resp[r].status = 500 /\ resp[r].body = [detail |-> "ConnectError"]

\* C12: one inbound request causes at most one backend request, on every path
\* and at every step.
C12_AtMostOneBackendCall ==
    \A r \in Reqs : work[r].calls <= 1

C12_Witness ==
    \E r \in Reqs :
        /\ pc[r] = "done" /\ Streamed(r) /\ work[r].raised = "ReadError"
        /\ work[r].calls = 1 /\ Len(out[r]) = 1

\* C13: a request whose handling has ended has shown the caller a terminal
\* outcome: a complete response, or a stream that closed normally or whose
\* last chunk is an error event.
C13_EveryEndIsObserved ==
    \A r \in Reqs :
        pc[r] = "done" =>
            /\ resp[r].status # 0
            /\ (Streamed(r) =>
                  \/ work[r].stream = "closed"
                  \/ /\ out[r] # <<>>
                     /\ out[r][Len(out[r])] = ErrorChunk(out[r][Len(out[r])].data))

\* The request document of a generation request whose body was a JSON object
\* (the translated copy the handler keeps).
HasDocument(r) == work[r].body_kind = "json" /\ work[r].nim_request.type = "object"
StreamField(r) == IF "stream" \in DOMAIN work[r].nim_request.doc
                  THEN work[r].nim_request.doc["stream"] ELSE "absent"
\* The request is on the buffered path: its POST is awaited or answered.
OnBufferedPath(r) == req[r].path \in GenerationPaths /\ work[r].calls = 1 /\ ~Streamed(r)

\* C14 as stated: the streaming path is taken exactly when the stream field is
\* true.
C14_StreamIffTrue ==
    \A r \in Reqs :
        HasDocument(r) => (Streamed(r) <=> StreamField(r) = "true")

\* C14 amended: the streaming path is taken exactly when the stream field is
\* truthy (true, or a value such as 1); absent, false and 0 take the buffered
\* path; and a request stays on the path it took: a streamed request never has
\* a buffered POST or a JSON response, a buffered one never yields a chunk.
C14_StreamIffTruthy ==
    \A r \in Reqs :
        /\ HasDocument(r) =>
              /\ Streamed(r) <=> StreamField(r) \in {"true", "1"}
              /\ OnBufferedPath(r) <=> StreamField(r) \in {"absent", "false", "0"}
        /\ Streamed(r) =>
              /\ pc[r] \in {"stream_open", "stream_wait", "stream_lines", "done"}
              /\ resp[r].media = "text/plain"
              /\ work[r].client # "open"
        /\ OnBufferedPath(r) =>
              /\ pc[r] \in {"post_wait", "done"}
              /\ out[r] = <<>>
              /\ resp[r].media # "text/plain"

C14_Witness ==
    \E r \in Reqs :
        /\ pc[r] = "done" /\ HasDocument(r) /\ StreamField(r) = "1"
        /\ Streamed(r) /\ work[r].stream = "closed" /\ Len(out[r]) = 2

\* C15: for every JSON document x, each translator returns x, and applied to
\* its own result returns it again.
C15_TranslateIdentity ==
    \A i \in 1..Len(tr.ys) : tr.ys[i].raised = "" /\ tr.ys[i].value = tr.x

\* C16: for every JSON document, of whatever type, each translator returns a
\* document and does not fail.
C16_TranslateTotal ==
    tr.ys # <<>> => tr.ys[1].raised = "" /\ tr.ys[1].value.type # "none"

\* C19: while the stream generator is at work (from the moment it issues the
\* streamed POST to the last chunk), the handler's client is open.
C19_ClientOpenWhileStreaming ==
    \A r \in Reqs :
        pc[r] \in {"stream_open", "stream_wait", "stream_lines"}
            => work[r].client = "open"

\* C20: an authenticated generation request whose body parses as JSON, of
\* whatever type, is never answered 400 or 500 by the proxy without a backend
\* call having been issued.
C20_AnyJsonReachesBackend ==
    \A r \in Reqs :
        (/\ pc[r] = "done" /\ req[r].path \in GenerationPaths
         /\ work[r].body_kind = "json")
        => ~(work[r].calls = 0 /\ resp[r].status \in {400, 500})

\* What a request's outcome may depend on: the request, its body, the
\* backend's answer to it, and where a failure (if any) struck its stream.
InputsOf(r) == <<req[r], work[r].body_kind, work[r].nim_request, backend[r],
                 work[r].raised, work[r].idx>>
\* r's state is left alone by a step.
Untouched(r) ==
    /\ pc'[r] = pc[r] /\ req'[r] = req[r] /\ backend'[r] = backend[r]
    /\ work'[r] = work[r] /\ resp'[r] = resp[r] /\ out'[r] = out[r]
\* Every chunk of r's stream comes from the backend's answer to r.
OwnChunks(r) ==
    \/ \E n \in 0..Len(Relayed(backend[r].lines)) :
          out[r] = SubSeq(Relayed(backend[r].lines), 1, n)
    \/ out[r] = <<ErrorChunk(Text(backend[r].lines))>>

\* C17: with requests in flight together, under every interleaving, each step
\* is one request's and leaves the configuration and every other request's
\* state as they were; a stream holds only chunks of its own backend answer;
\* and requests with the same inputs end with the same response and chunks,
\* whatever ran in between.
C17_RequestsDoNotInteract ==
    /\ [][/\ Config' = Config
          /\ \E r \in Reqs : \A q \in Reqs \ {r} : Untouched(q)]_vars
    /\ [](\A r \in Reqs : OwnChunks(r))
    /\ [](\A r \in Reqs, q \in Reqs :
            (pc[r] = "done" /\ pc[q] = "done" /\ InputsOf(r) = InputsOf(q))
            => resp[r] = resp[q] /\ out[r] = out[q])

\* Two streams in flight together, each having relayed a chunk of its own.
C17_Witness ==
    \E r \in Reqs, q \in Reqs :
        /\ r # q
        /\ pc[r] = "stream_lines" /\ pc[q] = "stream_lines"
        /\ out[r] = <<LineChunk(JsonX)>>
        /\ out[q] = <<LineChunk("data: a")>>

====
